---- MODULE Spec2Model ----
(***************************************************************************)
(* Kilo-Kit skill validator (src/src/tools/validate-skill.py).             *)
(*                                                                         *)
(* Text is modelled as a sequence of code points, each a TLA+ string       *)
(* ("a", " ", "\n", ...).  Two elements stand for longer runs of text:     *)
(* "EMOJI" is one decorative non-word, non-space code point, and "YAML"    *)
(* is the text of a YAML block whose decoded meaning the document record   *)
(* carries (PyYAML itself is a library, not code of this repository).      *)
(* A function that can raise returns a record [exc, r]: the exception, or  *)
(* None, and the result as it stands; an uncaught exception propagates     *)
(* through every caller, as in Python.                                     *)
(***************************************************************************)
EXTENDS Integers, Sequences, FiniteSets, TLC

VARIABLES pc, arg, ret, result, cli, skills, results, exit_code

vars == <<pc, arg, ret, result, cli, skills, results, exit_code>>

(***************************************************************************)
(* Bounds of the model.                                                    *)
(***************************************************************************)
MaxIssues == 5
MaxLines == 4
MaxSkills == 3

(***************************************************************************)
(* Severity, ValidationIssue, ValidationResult.                            *)
(***************************************************************************)
ERROR == "error"
WARNING == "warning"
INFO == "info"

Severity == {ERROR, WARNING, INFO}

\* A suggestion that was not given (Python's None).
None == "None"

ValidationIssue(severity, message, location, suggestion) ==
    [severity |-> severity, message |-> message,
     location |-> location, suggestion |-> suggestion]

\* metadata is a dict: a function whose DOMAIN is the set of keys recorded.
EmptyDict == [k \in {} |-> None]

ValidationResult(skill_path, valid) ==
    [skill_path |-> skill_path, valid |-> valid,
     issues |-> <<>>, metadata |-> EmptyDict]

\* A plausible slip: valid recomputed from the last finding alone.
add_issue_resets(r, severity, message, location, suggestion) ==
    [r EXCEPT !.issues = Append(@, ValidationIssue(severity, message, location, suggestion)),
              !.valid = (severity # ERROR)]

add_issue(r, severity, message, location, suggestion) ==
    [r EXCEPT !.issues = Append(@, ValidationIssue(severity, message, location, suggestion)),
              !.valid = IF severity = ERROR THEN FALSE ELSE @]

\* result.metadata[key] = value
SetMeta(r, key, value) ==
    [r EXCEPT !.metadata = [k \in (DOMAIN @) \cup {key} |->
                               IF k = key THEN value ELSE @[k]]]

Errors(r) == {i \in 1..Len(r.issues) : r.issues[i].severity = ERROR}
Warnings(r) == {i \in 1..Len(r.issues) : r.issues[i].severity = WARNING}
Infos(r) == {i \in 1..Len(r.issues) : r.issues[i].severity = INFO}

\* The findings of r whose message is an instance of `template`.
WithTemplate(r, template) ==
    {i \in 1..Len(r.issues) : r.issues[i].message.template = template}

(***************************************************************************)
(* Text: the str operations the validator uses.  Offsets are 1-based here  *)
(* and 0-based in Python; each operator says which Python call it is.      *)
(***************************************************************************)
LowerLetters == {"a", "b", "c", "d", "e", "f", "g", "h", "i", "j", "k", "l", "m",
                 "n", "o", "p", "q", "r", "s", "t", "u", "v", "w", "x", "y", "z"}
UpperLetters == {"A", "B", "C", "D", "E", "F", "G", "H", "I", "J", "K", "L", "M",
                 "N", "O", "P", "Q", "R", "S", "T", "U", "V", "W", "X", "Y", "Z"}
Digits == {"0", "1", "2", "3", "4", "5", "6", "7", "8", "9"}

\* \s of the re module, and what str.strip() removes.
IsSpace(c) == c \in {" ", "\n", "\t"}
\* \w of the re module.
IsWord(c) == c \in LowerLetters \cup UpperLetters \cup Digits \cup {"_"}

\* str.lower() on one code point.
LowerChar(c) ==
    CASE c = "A" -> "a" [] c = "B" -> "b" [] c = "C" -> "c" [] c = "D" -> "d"
      [] c = "E" -> "e" [] c = "F" -> "f" [] c = "G" -> "g" [] c = "H" -> "h"
      [] c = "I" -> "i" [] c = "J" -> "j" [] c = "K" -> "k" [] c = "L" -> "l"
      [] c = "M" -> "m" [] c = "N" -> "n" [] c = "O" -> "o" [] c = "P" -> "p"
      [] c = "Q" -> "q" [] c = "R" -> "r" [] c = "S" -> "s" [] c = "T" -> "t"
      [] c = "U" -> "u" [] c = "V" -> "v" [] c = "W" -> "w" [] c = "X" -> "x"
      [] c = "Y" -> "y" [] c = "Z" -> "z" [] OTHER -> c

\* s.lower()
Lower(s) == [i \in 1..Len(s) |-> LowerChar(s[i])]

\* s[i-1:] in Python terms: the suffix that starts at 1-based position i.
From(s, i) == SubSeq(s, i, Len(s))

\* s.startswith(p)
StartsWith(s, p) == Len(s) >= Len(p) /\ SubSeq(s, 1, Len(p)) = p

\* p occurs in s at 1-based position i.
OccursAt(s, p, i) == i >= 1 /\ i + Len(p) - 1 <= Len(s) /\ SubSeq(s, i, i + Len(p) - 1) = p

\* s.find(p, from-1) + 1: the first 1-based position >= from where p occurs, 0 if none.
Find(s, p, from) ==
    LET hits == {i \in from..(Len(s) - Len(p) + 1) : OccursAt(s, p, i)}
    IN IF hits = {} THEN 0 ELSE CHOOSE i \in hits : \A j \in hits : i <= j

\* p in s
Contains(s, p) == Find(s, p, 1) # 0

\* s.lstrip(), s.rstrip(), s.strip()
RECURSIVE LStrip(_)
LStrip(s) == IF s # <<>> /\ IsSpace(s[1]) THEN LStrip(Tail(s)) ELSE s

RECURSIVE RStrip(_)
RStrip(s) == IF s # <<>> /\ IsSpace(s[Len(s)]) THEN RStrip(SubSeq(s, 1, Len(s) - 1)) ELSE s

Strip(s) == RStrip(LStrip(s))

\* s.split('\n'): always at least one line.
RECURSIVE Split(_)
Split(s) ==
    LET nl == Find(s, <<"\n">>, 1)
    IN IF nl = 0 THEN <<s>>
       ELSE <<SubSeq(s, 1, nl - 1)>> \o Split(From(s, nl + 1))

\* '\n'.join(lines)
RECURSIVE Join(_)
Join(lines) ==
    IF lines = <<>> THEN <<>>
    ELSE IF Len(lines) = 1 THEN lines[1]
    ELSE lines[1] \o <<"\n">> \o Join(Tail(lines))

(***************************************************************************)
(* dict: insertion-ordered, as a sequence of [key, value] entries.         *)
(***************************************************************************)
Keys(d) == [i \in 1..Len(d) |-> d[i].key]

HasKey(d, k) == \E i \in 1..Len(d) : d[i].key = k

Get(d, k) == d[CHOOSE i \in 1..Len(d) : d[i].key = k].value

\* d[k] = v: an existing key keeps its position.
Put(d, k, v) ==
    IF HasKey(d, k)
    THEN [i \in 1..Len(d) |-> IF d[i].key = k THEN [key |-> k, value |-> v] ELSE d[i]]
    ELSE Append(d, [key |-> k, value |-> v])

(***************************************************************************)
(* extract_sections                                                        *)
(***************************************************************************)
\* current_section = None
NoSection == <<"<None>">>

\* Python truthiness of current_section: neither None nor the empty string.
Truthy(section) == section # NoSection /\ section # <<>>

\* re.sub(r'^[^\w\s]+\s*', '', title)
RECURSIVE DropSymbols(_)
DropSymbols(s) ==
    IF s # <<>> /\ ~IsWord(s[1]) /\ ~IsSpace(s[1]) THEN DropSymbols(Tail(s)) ELSE s

RemoveEmojiPrefix(title) ==
    IF title # <<>> /\ ~IsWord(title[1]) /\ ~IsSpace(title[1])
    THEN LStrip(DropSymbols(title))
    ELSE title

HeadingMarker == <<"#", "#", " ">>

\* One iteration of the loop over body.split('\n').
sections_step(st, line) ==
    IF StartsWith(line, HeadingMarker)
    THEN [sections |-> IF Truthy(st.current_section)
                       THEN Put(st.sections, st.current_section,
                                Strip(Join(st.current_content)))
                       ELSE st.sections,
          current_section |-> RemoveEmojiPrefix(Strip(From(line, 4))),
          current_content |-> <<>>]
    ELSE IF Truthy(st.current_section)
    THEN [st EXCEPT !.current_content = Append(@, line)]
    ELSE st

RECURSIVE sections_loop(_, _)
sections_loop(st, lines) ==
    IF lines = <<>> THEN st
    ELSE sections_loop(sections_step(st, lines[1]), Tail(lines))

extract_sections(body) ==
    LET st == sections_loop([sections |-> <<>>, current_section |-> NoSection,
                             current_content |-> <<>>], Split(body))
    IN IF Truthy(st.current_section)
       THEN Put(st.sections, st.current_section, Strip(Join(st.current_content)))
       ELSE st.sections

(***************************************************************************)
(* Findings: a message is its f-string template and the value formatted    *)
(* into it (always text; a number is formatted in decimal).                *)
(***************************************************************************)
Msg(template, param) == [template |-> template, param |-> param]

\* str(n) for an int n >= 0
RECURSIVE StrNat(_)
StrNat(n) ==
    LET digit == <<"0", "1", "2", "3", "4", "5", "6", "7", "8", "9">>
    IN IF n < 10 THEN <<digit[n + 1]>> ELSE Append(StrNat(n \div 10), digit[(n % 10) + 1])

(***************************************************************************)
(* validate_sections                                                       *)
(***************************************************************************)

REQUIRED_SECTIONS ==
    << <<"W", "h", "e", "n", " ", "t", "o", " ", "U", "s", "e">>,
       <<"P", "r", "o", "c", "e", "s", "s">>,
       <<"G", "u", "i", "d", "e", "l", "i", "n", "e", "s">> >>

RECOMMENDED_SECTIONS ==
    << <<"P", "r", "e", "r", "e", "q", "u", "i", "s", "i", "t", "e", "s">>,
       <<"S", "u", "c", "c", "e", "s", "s", " ", "C", "r", "i", "t", "e", "r", "i", "a">>,
       <<"R", "e", "l", "a", "t", "e", "d", " ", "S", "k", "i", "l", "l", "s">> >>

\* any(section.lower() in s.lower() for s in section_names)
section_found(section, section_names) ==
    \E i \in 1..Len(section_names) : Contains(Lower(section_names[i]), Lower(section))

RECURSIVE check_required_sections(_, _, _)
check_required_sections(r, todo, section_names) ==
    IF todo = <<>> THEN r
    ELSE check_required_sections(
             IF section_found(todo[1], section_names) THEN r
             ELSE add_issue(r, ERROR, Msg("Missing required section", todo[1]),
                            "body", "Add a section to the skill"),
             Tail(todo), section_names)

RECURSIVE check_recommended_sections(_, _, _)
check_recommended_sections(r, todo, section_names) ==
    IF todo = <<>> THEN r
    ELSE check_recommended_sections(
             IF section_found(todo[1], section_names) THEN r
             ELSE add_issue(r, INFO, Msg("Consider adding section", todo[1]), "body", None),
             Tail(todo), section_names)

\* for name, content in sections.items(): if kw in name.lower(): ... break
\* (NoSection, Python's None, when no name matches)
first_section_with(sections, kw) ==
    LET hits == {i \in 1..Len(sections) : Contains(Lower(sections[i].key), kw)}
    IN IF hits = {} THEN NoSection
       ELSE sections[CHOOSE i \in hits : \A j \in hits : i <= j].value

\* The end of the run of \s that starts at position j.
RECURSIVE SkipSpaces(_, _)
SkipSpaces(s, j) == IF j <= Len(s) /\ IsSpace(s[j]) THEN SkipSpaces(s, j + 1) ELSE j

\* len(re.findall(r'###\s*Phase', content, re.IGNORECASE)); two matches never overlap.
phase_count(content) ==
    Cardinality({i \in 1..Len(content) :
        /\ OccursAt(content, <<"#", "#", "#">>, i)
        /\ OccursAt(Lower(content), <<"p", "h", "a", "s", "e">>, SkipSpaces(content, i + 3))})

\* The positions after "##" and an optional third "#", for a match that starts at i.
AfterHashes(s, i) ==
    IF OccursAt(s, <<"#", "#">>, i)
    THEN {i + 2} \cup (IF i + 2 <= Len(s) /\ s[i + 2] = "#" THEN {i + 3} ELSE {})
    ELSE {}

\* bool(re.search(r'###?\s*DO\s*[..]?', content, re.IGNORECASE)): the tail is optional.
has_do(content) ==
    \E i \in 1..Len(content) : \E j \in AfterHashes(content, i) :
        OccursAt(Lower(content), <<"d", "o">>, SkipSpaces(content, j))

\* bool(re.search(r"###?\s*DON'?T\s*[..]?", content, re.IGNORECASE))
has_dont(content) ==
    \E i \in 1..Len(content) : \E j \in AfterHashes(content, i) :
        LET k == SkipSpaces(content, j)
        IN /\ OccursAt(Lower(content), <<"d", "o", "n">>, k)
           /\ \/ OccursAt(Lower(content), <<"t">>, k + 3)
              \/ OccursAt(Lower(content), <<"'", "t">>, k + 3)

check_process(r, sections) ==
    LET process_section == first_section_with(sections, <<"p", "r", "o", "c", "e", "s", "s">>)
    IN IF Truthy(process_section) /\ phase_count(process_section) < 2
       THEN add_issue(r, INFO, Msg("Process section has few phases",
                                   StrNat(phase_count(process_section))),
                      "section.Process", None)
       ELSE r

check_guidelines(r, sections) ==
    LET guidelines_section == first_section_with(sections, <<"g", "u", "i", "d", "e", "l", "i", "n", "e", "s">>)
        r1 == IF Truthy(guidelines_section) /\ ~has_do(guidelines_section)
              THEN add_issue(r, INFO, Msg("Guidelines section missing DO", <<>>),
                             "section.Guidelines", None)
              ELSE r
    IN IF Truthy(guidelines_section) /\ ~has_dont(guidelines_section)
       THEN add_issue(r1, INFO, Msg("Guidelines section missing DON'T", <<>>),
                      "section.Guidelines", None)
       ELSE r1

validate_sections(sections, r) ==
    LET section_names == Keys(sections)
        r1 == check_required_sections(r, REQUIRED_SECTIONS, section_names)
        r2 == check_recommended_sections(r1, RECOMMENDED_SECTIONS, section_names)
        r3 == check_process(r2, sections)
    IN check_guidelines(r3, sections)

(***************************************************************************)
(* Decoded YAML values (what yaml.safe_load returns): None, str, int,      *)
(* list of str, and mapping from field name to value.  A mapping is a      *)
(* function whose DOMAIN is the set of keys present.                       *)
(***************************************************************************)
VNull == [t |-> "null"]
VStr(chars) == [t |-> "str", s |-> chars]
VInt(n) == [t |-> "int", n |-> n]
VList(items) == [t |-> "list", items |-> items]
VMap(m) == [t |-> "map", m |-> m]

EmptyMap == VMap([k \in {} |-> VNull])

\* bool(v)
IsTruthy(v) ==
    CASE v.t = "null" -> FALSE
      [] v.t = "str" -> v.s # <<>>
      [] v.t = "int" -> v.n # 0
      [] v.t = "list" -> v.items # <<>>
      [] v.t = "map" -> DOMAIN v.m # {}

\* The text of a field name, for `field in frontmatter` on a str or a list.
KeyText(field) ==
    CASE field = "name" -> <<"n", "a", "m", "e">>
      [] field = "description" -> <<"d", "e", "s", "c", "r", "i", "p", "t", "i", "o", "n">>
      [] field = "version" -> <<"v", "e", "r", "s", "i", "o", "n">>
      [] field = "behaviors" -> <<"b", "e", "h", "a", "v", "i", "o", "r", "s">>
      [] field = "token_estimate" ->
            <<"t", "o", "k", "e", "n", "_", "e", "s", "t", "i", "m", "a", "t", "e">>
      [] field = "dependencies" ->
            <<"d", "e", "p", "e", "n", "d", "e", "n", "c", "i", "e", "s">>

\* An operator's outcome: Python's True, False, or a raised TypeError.
PyTrue == "True"
PyFalse == "False"
TypeError == "TypeError"

PyBool(b) == IF b THEN PyTrue ELSE PyFalse

\* field in v
py_in(field, v) ==
    CASE v.t = "map" -> PyBool(field \in DOMAIN v.m)
      [] v.t = "str" -> PyBool(Contains(v.s, KeyText(field)))
      [] v.t = "list" -> PyBool(\E i \in 1..Len(v.items) : v.items[i] = KeyText(field))
      [] OTHER -> TypeError

\* Whether v[field] can be evaluated, given that `field in v` held: a str or a
\* list subscripted by a str raises TypeError.
CanSubscript(v) == v.t = "map"

\* Code points in order, for str comparison.
CodePointOrder ==
    <<"0", "1", "2", "3", "4", "5", "6", "7", "8", "9",
      "A", "B", "C", "D", "E", "F", "G", "H", "I", "J", "K", "L", "M",
      "N", "O", "P", "Q", "R", "S", "T", "U", "V", "W", "X", "Y", "Z",
      "a", "b", "c", "d", "e", "f", "g", "h", "i", "j", "k", "l", "m",
      "n", "o", "p", "q", "r", "s", "t", "u", "v", "w", "x", "y", "z">>

Ord(c) == CHOOSE i \in 1..Len(CodePointOrder) : CodePointOrder[i] = c

RECURSIVE StrLeq(_, _)
StrLeq(a, b) ==
    IF a = <<>> THEN TRUE
    ELSE IF b = <<>> THEN FALSE
    ELSE IF a[1] = b[1] THEN StrLeq(Tail(a), Tail(b))
    ELSE Ord(a[1]) < Ord(b[1])

\* a <= b, for None, int and str operands
py_leq(a, b) ==
    CASE a.t = "int" /\ b.t = "int" -> PyBool(a.n <= b.n)
      [] a.t = "str" /\ b.t = "str" -> PyBool(StrLeq(a.s, b.s))
      [] OTHER -> TypeError

\* lo <= mid <= hi: the second comparison is evaluated only if the first holds.
py_chain_leq(lo, mid, hi) ==
    IF py_leq(lo, mid) = PyTrue THEN py_leq(mid, hi) ELSE py_leq(lo, mid)

\* str(v).  Of the repr of a list or a mapping only the brackets are kept.
py_str(v) ==
    CASE v.t = "str" -> v.s
      [] v.t = "int" -> IF v.n >= 0 THEN StrNat(v.n) ELSE <<"-">> \o StrNat(0 - v.n)
      [] v.t = "null" -> <<"N", "o", "n", "e">>
      [] v.t = "list" -> <<"[", "]">>
      [] v.t = "map" -> <<"{", "}">>

(***************************************************************************)
(* The regular expressions of validate_frontmatter and extract_keywords.   *)
(***************************************************************************)
AllIn(s, chars) == \A i \in 1..Len(s) : s[i] \in chars

\* `$` also matches just before a final newline.
BeforeDollar(s) ==
    IF s # <<>> /\ s[Len(s)] = "\n" THEN {s, SubSeq(s, 1, Len(s) - 1)} ELSE {s}

\* re.match(r'^[a-z0-9-]+$', s)
is_kebab(s) ==
    \E t \in BeforeDollar(s) : t # <<>> /\ AllIn(t, LowerLetters \cup Digits \cup {"-"})

\* s.split(sep) for a one-character separator
RECURSIVE SplitOn(_, _)
SplitOn(s, sep) ==
    LET at == Find(s, <<sep>>, 1)
    IN IF at = 0 THEN <<s>>
       ELSE <<SubSeq(s, 1, at - 1)>> \o SplitOn(From(s, at + 1), sep)

\* re.match(r'^\d+\.\d+\.\d+$', s)
is_semver(s) ==
    \E t \in BeforeDollar(s) :
        LET parts == SplitOn(t, ".")
        IN Len(parts) = 3 /\ \A i \in 1..3 : parts[i] # <<>> /\ AllIn(parts[i], Digits)

KwKeyword == <<"k", "e", "y", "w", "o", "r", "d">>

\* Where group 1 of r'Keywords?:\s*(.+)' starts when the pattern is tried at
\* position i (0: no match there).  \s* is greedy but gives characters back
\* until `.+` finds a character that is not a newline.
keywords_group_start(s, i) ==
    LET low == Lower(s)
        j == i + Len(KwKeyword)
        after == IF ~OccursAt(low, KwKeyword, i) THEN 0
                 ELSE IF OccursAt(low, <<":">>, j) THEN j + 1
                 ELSE IF OccursAt(low, <<"s", ":">>, j) THEN j + 2
                 ELSE 0
        stop == SkipSpaces(s, after)
        back == {q \in after..Len(s) : s[q] # "\n"}
    IN IF after = 0 THEN 0
       ELSE IF stop <= Len(s) THEN stop
       ELSE IF back = {} THEN 0
       ELSE CHOOSE q \in back : \A x \in back : x <= q

\* `.+`: from position q to the end of the line.
RestOfLine(s, q) ==
    LET nl == Find(s, <<"\n">>, q)
    IN IF nl = 0 THEN From(s, q) ELSE SubSeq(s, q, nl - 1)

extract_keywords(description) ==
    LET hits == {i \in 1..Len(description) : keywords_group_start(description, i) # 0}
        first == CHOOSE i \in hits : \A j \in hits : i <= j
        raw == SplitOn(RestOfLine(description, keywords_group_start(description, first)), ",")
    IN IF hits = {} THEN <<>>
       ELSE [k \in 1..Len(raw) |-> Strip(raw[k])]

(***************************************************************************)
(* validate_frontmatter.  A rule takes the result so far and returns       *)
(* [exc, r]: the exception it raised (None if it returned) and the result  *)
(* as mutated up to that point.                                            *)
(***************************************************************************)
REQUIRED_FRONTMATTER == <<"name", "description", "version">>
RECOMMENDED_FRONTMATTER == <<"behaviors", "token_estimate", "dependencies">>
MIN_KEYWORDS == 3

Returned(r) == [exc |-> None, r |-> r]
Raised(exc, r) == [exc |-> exc, r |-> r]

\* Run the next statement, Rule, on the result unless an exception is already
\* propagating.
Then(st, Rule(_)) == IF st.exc # None THEN st ELSE Rule(st.r)

\* if field not in frontmatter or not frontmatter[field]: add_issue(ERROR, ...)
required_field(frontmatter, field, r) ==
    LET missing == add_issue(r, ERROR, Msg("Missing required frontmatter field", KeyText(field)),
                             "frontmatter", "Add the field to the YAML frontmatter")
    IN CASE py_in(field, frontmatter) = TypeError -> Raised(TypeError, r)
         [] py_in(field, frontmatter) = PyFalse -> Returned(missing)
         [] OTHER -> IF ~CanSubscript(frontmatter) THEN Raised(TypeError, r)
                     ELSE IF ~IsTruthy(frontmatter.m[field]) THEN Returned(missing)
                     ELSE Returned(r)

RECURSIVE check_required(_, _, _)
check_required(frontmatter, todo, r) ==
    IF todo = <<>> THEN Returned(r)
    ELSE LET first == required_field(frontmatter, todo[1], r)
         IN Then(first, LAMBDA x : check_required(frontmatter, Tail(todo), x))

\* if field not in frontmatter: add_issue(WARNING, ...)
recommended_field(frontmatter, field, r) ==
    CASE py_in(field, frontmatter) = TypeError -> Raised(TypeError, r)
      [] py_in(field, frontmatter) = PyFalse ->
            Returned(add_issue(r, WARNING, Msg("Missing recommended field", KeyText(field)),
                               "frontmatter", "Consider adding the field"))
      [] OTHER -> Returned(r)

RECURSIVE check_recommended(_, _, _)
check_recommended(frontmatter, todo, r) ==
    IF todo = <<>> THEN Returned(r)
    ELSE LET first == recommended_field(frontmatter, todo[1], r)
         IN Then(first, LAMBDA x : check_recommended(frontmatter, Tail(todo), x))

\* The guard `if field in frontmatter:` followed by `frontmatter[field]`:
\* "absent", "raise", or "value".
Lookup(frontmatter, field) ==
    CASE py_in(field, frontmatter) = TypeError -> "raise"
      [] py_in(field, frontmatter) = PyFalse -> "absent"
      [] OTHER -> IF CanSubscript(frontmatter) THEN "value" ELSE "raise"

check_name(frontmatter, r) ==
    CASE Lookup(frontmatter, "name") = "absent" -> Returned(r)
      [] Lookup(frontmatter, "name") = "raise" -> Raised(TypeError, r)
      [] OTHER ->
            LET name == frontmatter.m["name"]
            IN IF name.t # "str" THEN Raised(TypeError, r)
               ELSE IF ~is_kebab(name.s)
               THEN Returned(add_issue(r, WARNING, Msg("Skill name should be kebab-case", name.s),
                                       "frontmatter.name", "Use format like 'my-skill-name'"))
               ELSE Returned(r)

check_description(frontmatter, r) ==
    CASE Lookup(frontmatter, "description") = "absent" -> Returned(r)
      [] Lookup(frontmatter, "description") = "raise" -> Raised(TypeError, r)
      [] OTHER ->
            LET desc == frontmatter.m["description"]
                keywords == extract_keywords(desc.s)
                r1 == SetMeta(r, "keywords", keywords)
            IN IF desc.t # "str" THEN Raised(TypeError, r)
               ELSE IF Len(keywords) < MIN_KEYWORDS
               THEN Returned(add_issue(r1, WARNING,
                                       Msg("Description has few keywords", StrNat(Len(keywords))),
                                       "frontmatter.description",
                                       "Add 'Keywords: keyword1, keyword2, keyword3' to description"))
               ELSE Returned(r1)

check_version(frontmatter, r) ==
    CASE Lookup(frontmatter, "version") = "absent" -> Returned(r)
      [] Lookup(frontmatter, "version") = "raise" -> Raised(TypeError, r)
      [] OTHER ->
            LET version == py_str(frontmatter.m["version"])
            IN IF ~is_semver(version)
               THEN Returned(add_issue(r, WARNING, Msg("Version should follow semver", version),
                                       "frontmatter.version", "Use format like '1.0.0'"))
               ELSE Returned(r)

TokenKeys == <<"min", "typical", "max">>

\* for key in ["min", "typical", "max"]: if key not in te: add_issue(WARNING, ...)
RECURSIVE check_token_keys(_, _, _)
check_token_keys(te, todo, r) ==
    IF todo = <<>> THEN r
    ELSE check_token_keys(te, Tail(todo),
             IF todo[1] \in DOMAIN te.m THEN r
             ELSE add_issue(r, WARNING, Msg("token_estimate missing key", <<todo[1]>>),
                            "frontmatter.token_estimate", None))

\* if all(k in te ...): if not (te["min"] <= te["typical"] <= te["max"]): add_issue(ERROR, ...)
check_token_order(te, r) ==
    IF \A i \in 1..Len(TokenKeys) : TokenKeys[i] \in DOMAIN te.m
    THEN LET ordered == py_chain_leq(te.m["min"], te.m["typical"], te.m["max"])
         IN CASE ordered = TypeError -> Raised(TypeError, r)
              [] ordered = PyFalse ->
                    Returned(add_issue(r, ERROR,
                                       Msg("token_estimate values should be: min <= typical <= max", <<>>),
                                       "frontmatter.token_estimate", None))
              [] OTHER -> Returned(r)
    ELSE Returned(r)

check_token_estimate(frontmatter, r) ==
    CASE Lookup(frontmatter, "token_estimate") = "absent" -> Returned(r)
      [] Lookup(frontmatter, "token_estimate") = "raise" -> Raised(TypeError, r)
      [] OTHER ->
            LET te == frontmatter.m["token_estimate"]
            IN IF te.t = "map"
               THEN check_token_order(te, check_token_keys(te, TokenKeys, r))
               ELSE Returned(r)

validate_frontmatter(frontmatter, r) ==
    LET s1 == check_required(frontmatter, REQUIRED_FRONTMATTER, r)
        s2 == Then(s1, LAMBDA x : check_recommended(frontmatter, RECOMMENDED_FRONTMATTER, x))
        s3 == Then(s2, LAMBDA x : check_name(frontmatter, x))
        s4 == Then(s3, LAMBDA x : check_description(frontmatter, x))
        s5 == Then(s4, LAMBDA x : check_version(frontmatter, x))
    IN Then(s5, LAMBDA x : check_token_estimate(frontmatter, x))

(***************************************************************************)
(* A skill document as the validator meets it on disk: the directory, its  *)
(* SKILL.md and the text in it.  In the text, the element "YAML" is a YAML *)
(* block that decodes to doc.yaml (a value, or Malformed when the decoder  *)
(* raises yaml.YAMLError) and is doc.yaml_width characters long; "FILL" is *)
(* a run of doc.fill_width letters.                                        *)
(***************************************************************************)
Malformed == [t |-> "malformed"]

\* The length of the YAML block's text.
YamlWidth == 120

Delimiter == <<"-", "-", "-">>

\* len(content)
RECURSIVE TextLen(_, _)
TextLen(content, doc) ==
    IF content = <<>> THEN 0
    ELSE (CASE content[1] = "YAML" -> doc.yaml_width
            [] content[1] = "FILL" -> doc.fill_width
            [] OTHER -> 1) + TextLen(Tail(content), doc)

\* yaml.safe_load(text): the empty document is None.
yaml_safe_load(text, doc) ==
    CASE text = <<>> -> VNull
      [] text = <<"YAML">> -> doc.yaml

(***************************************************************************)
(* parse_frontmatter: [frontmatter, body]                                  *)
(***************************************************************************)
\* A plausible slip: the fallback returns the trimmed text.
parse_frontmatter_trims(content, doc) ==
    LET end_index == Find(content, Delimiter, 4)
        frontmatter_str == Strip(SubSeq(content, 4, end_index - 1))
        body == Strip(From(content, end_index + 3))
        frontmatter == yaml_safe_load(frontmatter_str, doc)
    IN IF ~StartsWith(content, Delimiter)
       THEN [frontmatter |-> EmptyMap, body |-> Strip(content)]
       ELSE IF end_index = 0 \/ frontmatter = Malformed
       THEN [frontmatter |-> EmptyMap, body |-> Strip(content)]
       ELSE [frontmatter |-> IF IsTruthy(frontmatter) THEN frontmatter ELSE EmptyMap,
             body |-> body]

\* content.index("---", 3) is Find(content, Delimiter, 4); it raises ValueError
\* when there is no second delimiter, and the except clause catches that and
\* yaml.YAMLError alike.
parse_frontmatter(content, doc) ==
    LET end_index == Find(content, Delimiter, 4)
        frontmatter_str == Strip(SubSeq(content, 4, end_index - 1))
        body == Strip(From(content, end_index + 3))
        frontmatter == yaml_safe_load(frontmatter_str, doc)
    IN IF ~StartsWith(content, Delimiter)
       THEN [frontmatter |-> EmptyMap, body |-> content]
       ELSE IF end_index = 0 \/ frontmatter = Malformed
       THEN [frontmatter |-> EmptyMap, body |-> content]
       ELSE [frontmatter |-> IF IsTruthy(frontmatter) THEN frontmatter ELSE EmptyMap,
             body |-> body]

(***************************************************************************)
(* validate_structure: [skill_md, r]; skill_md is FALSE for None.          *)
(***************************************************************************)
\* A plausible slip: the optional directories are reported before SKILL.md is
\* looked for.
validate_structure_dirs_first(doc, r) ==
    LET r1 == IF ~doc.has_references
              THEN add_issue(r, INFO, Msg("No 'references/' directory (optional)", <<>>),
                             doc.path, "Add references/ for detailed documentation if needed")
              ELSE r
        r2 == IF ~doc.has_scripts
              THEN add_issue(r1, INFO, Msg("No 'scripts/' directory (optional)", <<>>),
                             doc.path, "Add scripts/ for helper utilities if needed")
              ELSE r1
    IN IF ~doc.has_skill_md
       THEN [skill_md |-> FALSE,
             r |-> add_issue(r2, ERROR, Msg("Missing SKILL.md file", <<>>), doc.path,
                             "Create a SKILL.md file using the template")]
       ELSE [skill_md |-> TRUE, r |-> r2]

validate_structure(doc, r) ==
    LET r1 == IF ~doc.has_references
              THEN add_issue(r, INFO, Msg("No 'references/' directory (optional)", <<>>),
                             doc.path, "Add references/ for detailed documentation if needed")
              ELSE r
        r2 == IF ~doc.has_scripts
              THEN add_issue(r1, INFO, Msg("No 'scripts/' directory (optional)", <<>>),
                             doc.path, "Add scripts/ for helper utilities if needed")
              ELSE r1
    IN IF ~doc.has_skill_md
       THEN [skill_md |-> FALSE,
             r |-> add_issue(r, ERROR, Msg("Missing SKILL.md file", <<>>), doc.path,
                             "Create a SKILL.md file using the template")]
       ELSE [skill_md |-> TRUE, r |-> r2]

(***************************************************************************)
(* validate_skill: [exc, r]                                                *)
(***************************************************************************)
ShortLength == 500
LongLength == 50000

\* A plausible slip: a document of exactly 500 characters counts as short.
check_length_inclusive(doc, r) ==
    LET content_length == TextLen(doc.content, doc)
    IN IF content_length <= ShortLength
       THEN add_issue(r, WARNING, Msg("SKILL.md seems too short", StrNat(content_length)),
                      doc.skill_md, "Add more detail to make the skill useful")
       ELSE IF content_length > LongLength
       THEN add_issue(r, WARNING, Msg("SKILL.md is very long", StrNat(content_length)),
                      doc.skill_md, "Consider moving detail to references/")
       ELSE r

check_length(doc, r) ==
    LET content_length == TextLen(doc.content, doc)
    IN IF content_length < ShortLength
       THEN add_issue(r, WARNING, Msg("SKILL.md seems too short", StrNat(content_length)),
                      doc.skill_md, "Add more detail to make the skill useful")
       ELSE IF content_length > LongLength
       THEN add_issue(r, WARNING, Msg("SKILL.md is very long", StrNat(content_length)),
                      doc.skill_md, "Consider moving detail to references/")
       ELSE r

\* A plausible slip: the frontmatter rules run on the empty map too.
validate_content_rules_always(doc, r) ==
    LET parsed == parse_frontmatter(doc.content, doc)
        rules == validate_frontmatter(parsed.frontmatter, r)
        s1 == Then(rules, LAMBDA x : Returned(SetMeta(x, "frontmatter", parsed.frontmatter)))
        sections == extract_sections(parsed.body)
    IN Then(s1, LAMBDA x :
           Returned(check_length(doc,
               SetMeta(validate_sections(sections, x), "sections", Keys(sections)))))

\* From `frontmatter, body = parse_frontmatter(content)` to the return.
validate_content(doc, r) ==
    LET parsed == parse_frontmatter(doc.content, doc)
        rules == validate_frontmatter(parsed.frontmatter, r)
        s1 == IF ~IsTruthy(parsed.frontmatter)
              THEN Returned(add_issue(r, ERROR, Msg("No YAML frontmatter found", <<>>), doc.skill_md,
                                      "Add YAML frontmatter between --- markers at the start"))
              ELSE Then(rules, LAMBDA x : Returned(SetMeta(x, "frontmatter", parsed.frontmatter)))
        sections == extract_sections(parsed.body)
    IN Then(s1, LAMBDA x :
           Returned(check_length(doc,
               SetMeta(validate_sections(sections, x), "sections", Keys(sections)))))

validate_skill(doc) ==
    LET r0 == ValidationResult(doc.path, TRUE)
        structure == validate_structure(doc, r0)
    IN IF ~doc.is_dir
       THEN Returned(add_issue(r0, ERROR, Msg("Path is not a directory", <<>>), doc.path, None))
       ELSE IF ~structure.skill_md
       THEN Returned(structure.r)
       ELSE IF ~doc.readable
       THEN Returned(add_issue(structure.r, ERROR, Msg("Cannot read SKILL.md", <<>>),
                               doc.skill_md, None))
       ELSE validate_content(doc, structure.r)

(***************************************************************************)
(* SpecResult: a ValidationResult created valid, then any add_issue calls. *)
(***************************************************************************)
Idle == [unused |-> TRUE]

InitResult ==
    /\ pc = "result"
    /\ result = ValidationResult("skill", TRUE)
    /\ arg = Idle /\ ret = Idle /\ cli = Idle
    /\ skills = <<>> /\ results = <<>> /\ exit_code = -1

AddIssue ==
    /\ pc = "result"
    /\ Len(result.issues) < MaxIssues
    /\ \E severity \in Severity :
          result' = add_issue(result, severity, Msg("finding", <<>>), "", None)
    /\ UNCHANGED <<pc, arg, ret, cli, skills, results, exit_code>>

SpecResult == InitResult /\ [][AddIssue]_vars

\* C1: after every add_issue call valid is true exactly when no error finding
\* has been appended so far; once false, valid never becomes true again; and
\* appending a warning or info finding leaves valid unchanged.
C1_ValidIffNoError ==
    /\ [](result.valid <=> Errors(result) = {})
    /\ [][ /\ (~result.valid => ~result'.valid)
           /\ (result'.issues[Len(result'.issues)].severity # ERROR
                  => result'.valid = result.valid) ]_vars

\* A warning was appended after an error, and valid stayed false.
C1_Witness ==
    /\ pc = "result"
    /\ Len(result.issues) >= 2
    /\ result.issues[1].severity = ERROR
    /\ result.issues[Len(result.issues)].severity = WARNING
    /\ ~result.valid

(***************************************************************************)
(* SpecSections: extract_sections, then validate_sections, on a body made  *)
(* of at most MaxLines lines.                                              *)
(***************************************************************************)
LineWhenToUse == <<"#", "#", " ", "W", "h", "e", "n", " ", "t", "o", " ", "U", "s", "e">>
LineProcess == <<"#", "#", " ", "P", "r", "o", "c", "e", "s", "s">>
LineEmojiProcess == <<"#", "#", " ", "EMOJI", " ", "P", "r", "o", "c", "e", "s", "s">>
LineGuidelines == <<"#", "#", " ", "G", "u", "i", "d", "e", "l", "i", "n", "e", "s">>
LineNoTitle == <<"#", "#", " ">>
LinePhase == <<"#", "#", "#", " ", "P", "h", "a", "s", "e">>
LineDo == <<"#", "#", "#", " ", "D", "O">>
LineDont == <<"#", "#", "#", " ", "D", "O", "N", "'", "T">>
LineText == <<"x">>
LineBlank == <<>>

SectionLines == {LineProcess, LineEmojiProcess, LineGuidelines, LineNoTitle,
                 LinePhase, LineDo, LineText, LineBlank}

Bodies == {Join(ls) : ls \in UNION {[1..n -> SectionLines] : n \in 0..MaxLines}}

InitSections ==
    /\ pc = "body"
    /\ arg \in {[body |-> b] : b \in Bodies}
    /\ ret = Idle /\ result = Idle /\ cli = Idle
    /\ skills = <<>> /\ results = <<>> /\ exit_code = -1

ExtractSections ==
    /\ pc = "body"
    /\ ret' = [sections |-> extract_sections(arg.body)]
    /\ pc' = "sections"
    /\ UNCHANGED <<arg, result, cli, skills, results, exit_code>>

ValidateSections ==
    /\ pc = "sections"
    /\ result' = validate_sections(ret.sections, ValidationResult("skill", TRUE))
    /\ pc' = "validated"
    /\ UNCHANGED <<arg, ret, cli, skills, results, exit_code>>

NextSections == ExtractSections \/ ValidateSections

SpecSections == InitSections /\ [][NextSections]_vars

\* The heading lines of a body, as 1-based line numbers, and the title of each.
IsHeading(line) == StartsWith(line, HeadingMarker)
HeadingsOf(lines) == {i \in 1..Len(lines) : IsHeading(lines[i])}
TitleOf(line) == RemoveEmojiPrefix(Strip(From(line, 4)))

\* The content under heading line h: the lines up to the next heading, trimmed.
ContentUnder(lines, h) ==
    LET later == {i \in HeadingsOf(lines) : i > h}
        stop == IF later = {} THEN Len(lines) + 1
                ELSE CHOOSE i \in later : \A j \in later : i <= j
    IN Strip(Join(SubSeq(lines, h + 1, stop - 1)))

\* What the claim says of the section map of a body, the titles being those of
\* the heading lines in `heads`.
SectionMapOf(sections, lines, heads) ==
    /\ {sections[i].key : i \in 1..Len(sections)} = {TitleOf(lines[h]) : h \in heads}
    /\ \A i, j \in 1..Len(sections) : i # j => sections[i].key # sections[j].key
    /\ \A i, j \in 1..Len(sections) :
          i < j => \E h \in heads :
                      /\ TitleOf(lines[h]) = sections[i].key
                      /\ \A g \in heads : TitleOf(lines[g]) = sections[j].key => h < g
    /\ \A i \in 1..Len(sections) :
          LET occ == {h \in heads : TitleOf(lines[h]) = sections[i].key}
              last == CHOOSE h \in occ : \A g \in occ : g <= h
          IN sections[i].value = ContentUnder(lines, last)

\* C9 (as claimed): extract_sections returns one entry per distinct heading
\* title, in document order; a repeated title holds only the content of its
\* last occurrence; lines before the first heading are in no section; and
\* deeper headings (###) stay inside the content of their parent section.
C9_OneEntryPerHeading ==
    pc = "sections" =>
        LET lines == Split(arg.body)
        IN SectionMapOf(ret.sections, lines, HeadingsOf(lines))

\* What the code does: the same, for the headings whose title is not empty.
C9_NonEmptyHeadings ==
    pc = "sections" =>
        LET lines == Split(arg.body)
        IN SectionMapOf(ret.sections, lines,
                        {h \in HeadingsOf(lines) : TitleOf(lines[h]) # <<>>})

\* The findings of the process-structure rule in r.
ProcessInfos(r) == WithTemplate(r, "Process section has few phases")

\* The sections, by position in the map, whose title contains "process".
ProcessSections(sections) ==
    {i \in 1..Len(sections) :
        Contains(Lower(sections[i].key), <<"p", "r", "o", "c", "e", "s", "s">>)}

\* What the claim says of the result r for the section map, the rule being
\* applied only to the contents in `counted`.
ProcessFindings(sections, r, counted) ==
    LET hits == ProcessSections(sections)
        content == sections[CHOOSE i \in hits : \A j \in hits : i <= j].value
    IN /\ ProcessInfos(r) \subseteq Infos(r)
       /\ Cardinality(ProcessInfos(r)) =
             IF hits # {} /\ content \in counted /\ phase_count(content) < 2 THEN 1 ELSE 0

\* C13 (as claimed): when a section title contains "process", the first such
\* section is used and exactly one info finding is emitted if its content
\* holds fewer than 2 level-3 Phase sub-headings, also when it holds none or
\* is empty, and none when it holds 2 or more; with no such section the rule
\* emits nothing.
C13_ProcessRule ==
    pc = "validated" =>
        ProcessFindings(ret.sections, result,
                        {ret.sections[i].value : i \in 1..Len(ret.sections)})

\* What the code does: the same, except that an empty content gets no finding.
C13_NonEmptyContent ==
    pc = "validated" =>
        ProcessFindings(ret.sections, result,
                        {ret.sections[i].value : i \in 1..Len(ret.sections)} \ {<<>>})

(***************************************************************************)
(* SpecFrontmatter: validate_frontmatter on a decoded metadata value.      *)
(* validate_skill passes it only truthy values (`frontmatter or {}`, then  *)
(* `if not frontmatter`).                                                  *)
(***************************************************************************)
NameKebab == <<"m", "y", "-", "s", "k", "i", "l", "l">>
NameTitle == <<"M", "y", " ", "S", "k", "i", "l", "l">>
DescTwo == <<"D", "o", "e", "s", " ", "X", ".", " ", "K", "e", "y", "w", "o", "r", "d", "s", ":", " ", "a", ",", " ", "b">>
DescThree == <<"D", "o", "e", "s", " ", "X", ".", " ", "K", "e", "y", "w", "o", "r", "d", "s", ":", " ", "a", ",", " ", "b", ",", " ", "c">>
DescNone == <<"D", "o", "e", "s", " ", "X", ".">>
Semver == <<"1", ".", "0", ".", "0">>
TextHello == <<"h", "e", "l", "l", "o">>

\* The mappings of S, and each of them with `field` set to a value of `values`.
WithField(S, field, values) ==
    S \cup {VMap((field :> v) @@ m.m) : m \in S, v \in values}

TokenEstimates ==
    LET entries == {VInt(5), VInt(10), VInt(20), VStr(<<"a">>)}
    IN WithField(WithField(WithField({EmptyMap}, "min", entries),
                           "typical", entries), "max", entries)

Mappings ==
    WithField(WithField(WithField(WithField(WithField(WithField({EmptyMap},
        "name", {VStr(NameKebab), VStr(NameTitle), VNull, VInt(123)}),
        "description", {VStr(DescTwo), VStr(DescThree), VStr(DescNone), VNull}),
        "version", {VStr(Semver), VInt(1), VNull}),
        "token_estimate", TokenEstimates \cup {VInt(1000)}),
        "behaviors", {VList(<<>>)}),
        "dependencies", {VList(<<>>)})

NonMappings == {VStr(TextHello), VStr(<<"v", "e", "r", "s", "i", "o", "n", " ", "1">>), VInt(7),
                VList(<<TextHello>>), VList(<<KeyText("name")>>)}

Frontmatters == {v \in Mappings \cup NonMappings : IsTruthy(v)}

InitFrontmatter ==
    /\ pc = "frontmatter"
    /\ arg \in {[frontmatter |-> v] : v \in Frontmatters}
    /\ ret = Idle /\ result = Idle /\ cli = Idle
    /\ skills = <<>> /\ results = <<>> /\ exit_code = -1

ValidateFrontmatter ==
    /\ pc = "frontmatter"
    /\ ret' = validate_frontmatter(arg.frontmatter, ValidationResult("skill", TRUE))
    /\ pc' = IF ret'.exc = None THEN "returned" ELSE "raised"
    /\ UNCHANGED <<arg, result, cli, skills, results, exit_code>>

SpecFrontmatter == InitFrontmatter /\ [][ValidateFrontmatter]_vars

\* C4 (as claimed): rule evaluation over decoded metadata is total: for every
\* decoded value validate_frontmatter finishes without raising.
C4_RulesNeverRaise ==
    pc # "frontmatter" => (pc = "returned" /\ ret.exc = None)

\* The metadata is a mapping whose token_estimate is a mapping, and the rules
\* before the token-estimate rule meet only text in name and description.
ReachesTokenRule(frontmatter) ==
    /\ frontmatter.t = "map"
    /\ "token_estimate" \in DOMAIN frontmatter.m
    /\ frontmatter.m["token_estimate"].t = "map"
    /\ \A f \in {"name", "description"} :
          f \in DOMAIN frontmatter.m => frontmatter.m[f].t = "str"

\* min <= typical <= max holds: three integers, or three texts, in order.
EstimateInOrder(te) ==
    \/ /\ \A k \in DOMAIN te.m : te.m[k].t = "int"
       /\ te.m["min"].n <= te.m["typical"].n
       /\ te.m["typical"].n <= te.m["max"].n
    \/ /\ \A k \in DOMAIN te.m : te.m[k].t = "str"
       /\ StrLeq(te.m["min"].s, te.m["typical"].s)
       /\ StrLeq(te.m["typical"].s, te.m["max"].s)

OrderMessage == Msg("token_estimate values should be: min <= typical <= max", <<>>)

\* What the claim says of the findings of r for the mapping te.
TokenFindings(te, r) ==
    /\ \A k \in {"min", "typical", "max"} :
          LET missing == {i \in 1..Len(r.issues) :
                             r.issues[i].message = Msg("token_estimate missing key", <<k>>)}
          IN /\ Cardinality(missing) = IF k \in DOMAIN te.m THEN 0 ELSE 1
             /\ missing \subseteq Warnings(r)
    /\ LET order == {i \in 1..Len(r.issues) : r.issues[i].message = OrderMessage}
       IN /\ order \subseteq Errors(r)
          /\ Cardinality(order) =
                IF DOMAIN te.m = {"min", "typical", "max"} /\ ~EstimateInOrder(te) THEN 1 ELSE 0

\* C10 (as claimed): for a token_estimate that is a mapping, one warning per
\* missing key of min, typical, max; with all three present exactly one error
\* if min <= typical <= max does not hold and none if it holds; with a key
\* missing, no ordering error.
C10_TokenEstimateRule ==
    (pc # "frontmatter" /\ ReachesTokenRule(arg.frontmatter)) =>
        /\ pc = "returned"
        /\ TokenFindings(arg.frontmatter.m["token_estimate"], ret.r)

\* C10, for the mappings on which the comparison does not raise.
C10_WhenReturned ==
    (pc = "returned" /\ ReachesTokenRule(arg.frontmatter)) =>
        TokenFindings(arg.frontmatter.m["token_estimate"], ret.r)

\* The metadata is a mapping that has a description, and the rules before the
\* keyword-count rule do not raise (name is absent or text).
ReachesKeywordRule(frontmatter) ==
    /\ frontmatter.t = "map"
    /\ "description" \in DOMAIN frontmatter.m
    /\ "name" \in DOMAIN frontmatter.m => frontmatter.m["name"].t = "str"

KeywordWarnings(r) == WithTemplate(r, "Description has few keywords")

\* What the claim says of the result r for the description desc.
KeywordFindings(desc, r) ==
    /\ "keywords" \in DOMAIN r.metadata
    /\ desc.t = "str" => r.metadata["keywords"] = extract_keywords(desc.s)
    /\ desc = VStr(DescTwo) => r.metadata["keywords"] = << <<"a">>, <<"b">> >>
    /\ KeywordWarnings(r) \subseteq Warnings(r)
    /\ Cardinality(KeywordWarnings(r)) = IF Len(r.metadata["keywords"]) < 3 THEN 1 ELSE 0

\* C12 (as claimed): whenever the frontmatter rules run on a metadata map, the
\* keyword-count rule records the list extracted from the description under
\* metadata key keywords, whatever its length, and emits exactly one warning
\* if and only if the list has fewer than 3 entries; "Does X. Keywords: a, b"
\* yields [a, b] and exactly one warning.
C12_KeywordRule ==
    (pc # "frontmatter" /\ ReachesKeywordRule(arg.frontmatter)) =>
        KeywordFindings(arg.frontmatter.m["description"], ret.r)

\* C12, for the maps whose description is text.
C12_WhenDescriptionIsText ==
    (pc # "frontmatter" /\ ReachesKeywordRule(arg.frontmatter)
        /\ arg.frontmatter.m["description"].t = "str") =>
        KeywordFindings(arg.frontmatter.m["description"], ret.r)

\* What the code does for a map without a description: no keywords entry and
\* no keyword-count warning.
C12_WithoutDescription ==
    (pc # "frontmatter" /\ arg.frontmatter.t = "map"
        /\ "description" \notin DOMAIN arg.frontmatter.m) =>
        /\ "keywords" \notin DOMAIN ret.r.metadata
        /\ KeywordWarnings(ret.r) = {}

(***************************************************************************)
(* SpecSkill: validate_skill on one document.                              *)
(***************************************************************************)
Doc(path, is_dir, has_skill_md, has_references, has_scripts, readable, content, yaml) ==
    [path |-> path, skill_md |-> "SKILL.md", is_dir |-> is_dir,
     has_skill_md |-> has_skill_md, has_references |-> has_references,
     has_scripts |-> has_scripts, readable |-> readable,
     content |-> content, yaml |-> yaml, yaml_width |-> YamlWidth, fill_width |-> 0]

NotADirectory == Doc("skill", FALSE, FALSE, FALSE, FALSE, FALSE, <<>>, VNull)
NoPrimaryFile(refs, scripts) == Doc("skill", TRUE, FALSE, refs, scripts, FALSE, <<>>, VNull)
Unreadable(refs) == Doc("skill", TRUE, TRUE, refs, TRUE, FALSE, <<>>, VNull)
Readable(refs, content, yaml) == Doc("skill", TRUE, TRUE, refs, TRUE, TRUE, content, yaml)

NL == <<"\n">>

\* A closed metadata block.
ClosedFront == Delimiter \o NL \o <<"YAML">> \o NL \o Delimiter \o NL

\* The text before the body: nothing, a closed block, a block that is never
\* closed, and two delimiters with nothing between them.
Fronts == {<<>>, ClosedFront, Delimiter \o NL \o <<"YAML">> \o NL,
           Delimiter \o Delimiter \o NL}

FullBody == Join(<<LineWhenToUse, LineText, LineProcess, LinePhase, LinePhase,
                   LineGuidelines, LineDo, LineDont>>)
PlainBody == Join(<<LineWhenToUse, LineBlank, LineEmojiProcess, LineText, LineGuidelines>>)
NoProcessBody == Join(<<LineText, LineWhenToUse, LineGuidelines, LineDo>>)
SkillBodies == {FullBody, PlainBody, NoProcessBody, LineText, <<>>}

Contents ==
    {pre \o front \o body \o trail :
        pre \in {<<>>, NL}, front \in Fronts, body \in SkillBodies, trail \in {<<>>, NL}}

GoodEstimate == VMap(("min" :> VInt(5)) @@ ("typical" :> VInt(10)) @@ ("max" :> VInt(20)))
BadEstimate == VMap(("min" :> VInt(10)) @@ ("typical" :> VInt(5)) @@ ("max" :> VInt(20)))

SkillMappings ==
    WithField(WithField(WithField(WithField(WithField({EmptyMap},
        "name", {VStr(NameKebab), VInt(123)}),
        "description", {VStr(DescThree), VNull}),
        "version", {VStr(Semver)}),
        "token_estimate", {GoodEstimate, BadEstimate}),
        "behaviors", {VList(<<>>)})

HasYaml(content) == \E i \in 1..Len(content) : content[i] = "YAML"

SkillDocs ==
    {NotADirectory}
    \cup {NoPrimaryFile(refs, scripts) : refs \in BOOLEAN, scripts \in BOOLEAN}
    \cup {Unreadable(refs) : refs \in BOOLEAN}
    \cup {Readable(refs, content, yaml) :
            refs \in BOOLEAN,
            content \in {c \in Contents : ~HasYaml(c)}, yaml \in {VNull}}
    \cup {Readable(TRUE, content, yaml) :
            content \in {c \in Contents : HasYaml(c)},
            yaml \in SkillMappings \cup {Malformed, VNull, VStr(TextHello), VInt(7)}}

InitSkill ==
    /\ pc = "skill"
    /\ arg \in {[doc |-> d] : d \in SkillDocs}
    /\ ret = Idle /\ result = Idle /\ cli = Idle
    /\ skills = <<>> /\ results = <<>> /\ exit_code = -1

ValidateSkill ==
    /\ pc = "skill"
    /\ ret' = validate_skill(arg.doc)
    /\ pc' = IF ret'.exc = None THEN "returned" ELSE "raised"
    /\ UNCHANGED <<arg, result, cli, skills, results, exit_code>>

SpecSkill == InitSkill /\ [][ValidateSkill]_vars

\* The text between the two delimiters, as the splitter hands it to the decoder.
BlockText(content) == Strip(SubSeq(content, 4, Find(content, Delimiter, 4) - 1))

\* The document is read, and the decode of its metadata block fails.
DecodeFails(doc) ==
    /\ doc.is_dir /\ doc.has_skill_md /\ doc.readable
    /\ StartsWith(doc.content, Delimiter)
    /\ Find(doc.content, Delimiter, 4) # 0
    /\ yaml_safe_load(BlockText(doc.content), doc) = Malformed

\* The document is read, and its text does not begin with the delimiter.
NoDelimiter(doc) ==
    /\ doc.is_dir /\ doc.has_skill_md /\ doc.readable
    /\ ~StartsWith(doc.content, Delimiter)

\* C3: for a directory without SKILL.md, validate_skill returns a result with
\* valid = false and exactly one finding, an error: no auxiliary-directory,
\* frontmatter, section or length finding, and no metadata entry.
C3_MissingPrimaryFile ==
    (pc # "skill" /\ arg.doc.is_dir /\ ~arg.doc.has_skill_md) =>
        /\ pc = "returned"
        /\ ~ret.r.valid
        /\ Len(ret.r.issues) = 1
        /\ ret.r.issues[1].severity = ERROR
        /\ ret.r.issues[1].message.template = "Missing SKILL.md file"
        /\ DOMAIN ret.r.metadata = {}

\* A directory with neither SKILL.md nor references/ nor scripts/ was validated.
C3_Witness ==
    /\ pc = "returned"
    /\ arg.doc.is_dir /\ ~arg.doc.has_skill_md
    /\ ~arg.doc.has_references /\ ~arg.doc.has_scripts
    /\ Len(ret.r.issues) = 1

C6_BodyIsTrimmedText ==
    (pc # "skill" /\ NoDelimiter(arg.doc)) =>
        /\ parse_frontmatter(arg.doc.content, arg.doc)
              = [frontmatter |-> EmptyMap, body |-> Strip(arg.doc.content)]
        /\ pc = "returned"
        /\ WithTemplate(ret.r, "No YAML frontmatter found") \cap Errors(ret.r) # {}

\* C6 (amended): for a document whose text does not begin with the delimiter,
\* the splitter returns an empty map and the full text as it is, not trimmed,
\* and the result holds an error finding that reports the missing frontmatter.
C6_BodyIsFullText ==
    (pc # "skill" /\ NoDelimiter(arg.doc)) =>
        /\ parse_frontmatter(arg.doc.content, arg.doc)
              = [frontmatter |-> EmptyMap, body |-> arg.doc.content]
        /\ pc = "returned"
        /\ WithTemplate(ret.r, "No YAML frontmatter found") \cap Errors(ret.r) # {}

\* A document that starts with a blank line and ends with a newline was validated.
C6_Witness ==
    /\ pc = "returned"
    /\ NoDelimiter(arg.doc)
    /\ arg.doc.content # Strip(arg.doc.content)
    /\ Strip(arg.doc.content) # <<>>
    /\ WithTemplate(ret.r, "No YAML frontmatter found") # {}

\* The token_estimate value is a mapping of integers with min <= typical <= max.
WellFormedEstimate(te) ==
    /\ te.t = "map"
    /\ DOMAIN te.m = {"min", "typical", "max"}
    /\ \A k \in DOMAIN te.m : te.m[k].t = "int"
    /\ te.m["min"].n <= te.m["typical"].n
    /\ te.m["typical"].n <= te.m["max"].n

\* The document is read; name, description and version are present and truthy;
\* every required title is a case-insensitive substring of an extracted
\* heading; and token_estimate is well formed.
CompleteSkill(doc) ==
    /\ doc.is_dir /\ doc.has_skill_md /\ doc.readable
    /\ LET parsed == parse_frontmatter(doc.content, doc)
           headings == Keys(extract_sections(parsed.body))
       IN /\ parsed.frontmatter.t = "map"
          /\ \A i \in 1..Len(REQUIRED_FRONTMATTER) :
                /\ REQUIRED_FRONTMATTER[i] \in DOMAIN parsed.frontmatter.m
                /\ IsTruthy(parsed.frontmatter.m[REQUIRED_FRONTMATTER[i]])
          /\ \A i \in 1..Len(REQUIRED_SECTIONS) :
                \E j \in 1..Len(headings) :
                   Contains(Lower(headings[j]), Lower(REQUIRED_SECTIONS[i]))
          /\ "token_estimate" \in DOMAIN parsed.frontmatter.m
          /\ WellFormedEstimate(parsed.frontmatter.m["token_estimate"])

\* C7 (as claimed): for every readable document with all required fields
\* present and truthy, all required sections and a well-formed token_estimate,
\* validate_skill yields a result with no error finding and valid = true.
C7_CompleteSkillIsValid ==
    (pc # "skill" /\ CompleteSkill(arg.doc)) =>
        /\ pc = "returned"
        /\ Errors(ret.r) = {}
        /\ ret.r.valid

\* C7, for the documents on which validate_skill returns: no error finding and
\* valid = true.
C7_ValidWhenReturned ==
    (pc = "returned" /\ CompleteSkill(arg.doc)) =>
        /\ Errors(ret.r) = {}
        /\ ret.r.valid

(***************************************************************************)
(* Spec: main.  The tree under the path is the sequence of directories     *)
(* rglob visits; an uncaught exception ends the process with exit code 1.  *)
(***************************************************************************)
\* find_all_skills: the parent of every SKILL.md found.
find_all_skills(tree) == SelectSeq(tree, LAMBDA d : d.has_skill_md)

GoodYaml ==
    VMap(("name" :> VStr(NameKebab)) @@ ("description" :> VStr(DescThree))
         @@ ("version" :> VStr(Semver)) @@ ("token_estimate" :> GoodEstimate))

GoodSkill == Readable(TRUE, ClosedFront \o FullBody \o NL, GoodYaml)
NoFrontSkill == Readable(TRUE, FullBody \o NL, VNull)
MalformedSkill == Readable(TRUE, ClosedFront \o FullBody \o NL, Malformed)
NumericNameSkill ==
    Readable(TRUE, ClosedFront \o FullBody \o NL, VMap(("name" :> VInt(123)) @@ GoodYaml.m))

\* The directories a tree can hold, and what a single path can be.
TreeDirs == {GoodSkill, NoFrontSkill, MalformedSkill, NumericNameSkill,
             Unreadable(TRUE), NoPrimaryFile(TRUE, TRUE)}

Init ==
    /\ pc = "start"
    /\ cli \in [all : BOOLEAN, json : BOOLEAN]
    /\ arg \in IF cli.all
               THEN {[tree |-> t] : t \in UNION {[1..n -> TreeDirs] : n \in 0..MaxSkills}}
               ELSE {[path |-> d] : d \in TreeDirs \cup {NotADirectory}}
    /\ ret = Idle /\ result = Idle
    /\ skills = <<>> /\ results = <<>> /\ exit_code = -1

\* Lines 449-456: with --all and no skill found, exit 1.
FindSkills ==
    /\ pc = "start"
    /\ skills' = IF cli.all THEN find_all_skills(arg.tree) ELSE <<arg.path>>
    /\ IF cli.all /\ skills' = <<>>
       THEN pc' = "exited" /\ exit_code' = 1
       ELSE pc' = "loop" /\ UNCHANGED exit_code
    /\ UNCHANGED <<arg, ret, result, cli, results>>

\* Lines 460-465: one iteration of the loop.  validate_skill is called with no
\* try around it.
ValidateNext ==
    /\ pc = "loop"
    /\ Len(results) < Len(skills)
    /\ \E outcome \in {validate_skill(skills[Len(results) + 1])} :
          IF outcome.exc # None
          THEN pc' = "exited" /\ exit_code' = 1 /\ ret' = [traceback |-> outcome.exc]
               /\ UNCHANGED results
          ELSE results' = Append(results, outcome.r) /\ UNCHANGED <<pc, exit_code, ret>>
    /\ UNCHANGED <<arg, result, cli, skills>>

valid_count(rs) == Cardinality({i \in 1..Len(rs) : rs[i].valid})

\* Lines 467-508: the summary and the exit code.
Summarize ==
    /\ pc = "loop"
    /\ Len(results) = Len(skills)
    /\ LET total_count == Len(results)
       IN /\ ret' = [summary |-> [total |-> total_count, valid |-> valid_count(results),
                                  invalid |-> total_count - valid_count(results)]]
          /\ exit_code' = IF ~cli.json /\ valid_count(results) < total_count THEN 1
                          ELSE IF valid_count(results) = total_count THEN 0 ELSE 1
    /\ pc' = "exited"
    /\ UNCHANGED <<arg, result, cli, skills, results>>

Next == FindSkills \/ ValidateNext \/ Summarize

Spec == Init /\ [][Next]_vars

\* The run ended because --all found no skill.
NothingFound == cli.all /\ skills = <<>>

\* C2 (as claimed): the batch loop yields exactly one result per identifier, in
\* input order, each the result validate_skill gives for that identifier
\* alone, whatever the other documents are; and the summary counts them:
\* total = number of results, valid = number of results that are valid.
C2_OneResultPerSkill ==
    (pc = "exited" /\ ~NothingFound) =>
        /\ Len(results) = Len(skills)
        /\ \A i \in 1..Len(results) : results[i] = validate_skill(skills[i]).r
        /\ "summary" \in DOMAIN ret
        /\ ret.summary.total = Len(results)
        /\ ret.summary.valid = Cardinality({i \in 1..Len(results) : results[i].valid})

\* C2, for the runs in which no validate_skill call raises.
C2_WhenNothingRaises ==
    (pc = "exited" /\ ~NothingFound /\ "traceback" \notin DOMAIN ret) =>
        /\ Len(results) = Len(skills)
        /\ \A i \in 1..Len(results) : results[i] = validate_skill(skills[i]).r
        /\ ret.summary.total = Len(results)
        /\ ret.summary.valid = Cardinality({i \in 1..Len(results) : results[i].valid})

\* C8 (as claimed): the exit code is 0 if and only if every result has
\* valid = true, and 1 otherwise, with and without --json; with --all and no
\* document found it is 1 and no document is validated.
C8_ExitCode ==
    pc = "exited" =>
        IF NothingFound
        THEN exit_code = 1 /\ results = <<>>
        ELSE /\ exit_code \in {0, 1}
             /\ exit_code = 0 <=> \A i \in 1..Len(results) : results[i].valid

\* C8, for the runs in which no validate_skill call raises.
C8_WhenNothingRaises ==
    (pc = "exited" /\ "traceback" \notin DOMAIN ret) =>
        IF NothingFound
        THEN exit_code = 1 /\ results = <<>>
        ELSE /\ exit_code \in {0, 1}
             /\ exit_code = 0 <=> \A i \in 1..Len(results) : results[i].valid

(***************************************************************************)
(* SpecLength: validate_skill on documents whose length is at and around   *)
(* the two thresholds of the length rule.                                  *)
(***************************************************************************)
\* The lengths tried: the empty-handed minimum, and each threshold with its
\* two neighbours.
LengthTargets ==
    {ShortLength - 1, ShortLength, ShortLength + 1,
     LongLength - 1, LongLength, LongLength + 1}

\* The document with its run of filler letters sized so that len(content) = L.
Padded(doc, L) == [doc EXCEPT !.fill_width = L - TextLen(doc.content, doc)]

LengthContents ==
    {front \o body \o <<"FILL">> \o NL :
        front \in {<<>>, ClosedFront}, body \in {FullBody, NoProcessBody, LineText}}

LengthDocs ==
    {Readable(TRUE, content, VNull) : content \in {c \in LengthContents : ~HasYaml(c)}}
    \cup {Readable(TRUE, content, yaml) :
            content \in {c \in LengthContents : HasYaml(c)},
            yaml \in {GoodYaml, VMap(("name" :> VInt(123)) @@ GoodYaml.m),
                      VMap(("token_estimate" :> BadEstimate) @@ GoodYaml.m), Malformed}}

InitLength ==
    /\ pc = "skill"
    /\ arg \in {[doc |-> Padded(d, L)] : d \in LengthDocs, L \in LengthTargets}
                  \cup {[doc |-> d] : d \in LengthDocs}
    /\ ret = Idle /\ result = Idle /\ cli = Idle
    /\ skills = <<>> /\ results = <<>> /\ exit_code = -1

SpecLength == InitLength /\ [][ValidateSkill]_vars

\* The findings of the length rule in r.
ShortWarnings(r) == WithTemplate(r, "SKILL.md seems too short")
LongWarnings(r) == WithTemplate(r, "SKILL.md is very long")

\* C11: for a document that reaches the length rule, with L = len(content):
\* exactly one length warning, the short one, when L < 500; exactly one, the
\* long one, when L > 50000; none when 500 <= L <= 50000; the finding is a
\* warning, comes last, and valid is still true exactly when the result holds
\* no error finding.
C11_LengthWarning ==
    (pc = "returned" /\ arg.doc.is_dir /\ arg.doc.has_skill_md /\ arg.doc.readable) =>
        LET L == TextLen(arg.doc.content, arg.doc)
            r == ret.r
        IN /\ Cardinality(ShortWarnings(r)) = IF L < 500 THEN 1 ELSE 0
           /\ Cardinality(LongWarnings(r)) = IF L > 50000 THEN 1 ELSE 0
           /\ ShortWarnings(r) \cup LongWarnings(r) \subseteq Warnings(r) \cap {Len(r.issues)}
           /\ r.valid <=> Errors(r) = {}

\* A valid document of exactly 499 characters was validated and got the short
\* warning as its only warning.
C11_Witness ==
    /\ pc = "returned"
    /\ TextLen(arg.doc.content, arg.doc) = 499
    /\ Cardinality(ShortWarnings(ret.r)) = 1
    /\ ret.r.valid

====
